---- MODULE Spec2Model ----
(***************************************************************************)
(* GNU jobserver client of ninja (src/jobserver.h, src/jobserver-posix.cc). *)
(* Every client is one process holding one Jobserver object; the clients    *)
(* share one token pool, a pipe or fifo holding one byte per free token.    *)
(* Strings are TLA+ strings; positions are 1-based.                         *)
(***************************************************************************)
EXTENDS Integers, Sequences, FiniteSets, TLC

\* ------------------------------------------------------------------ bounds
NumClients == 2
PoolSize == 2
MaxHeld == 3

Clients == 1..NumClients

\* ------------------------------------------------------- program constants
AUTH_KEY == "--jobserver-auth="
FDS_KEY == "--jobserver-fds="
FIFO_KEY == "fifo:"

\* ------------------------------------------------------------ the state
VARIABLES
  pc,               \* "new", "idle", "reading", "aborted" or "destroyed"
  makeflags,        \* what getenv("MAKEFLAGS") gave the constructor
  token_count,
  jobserver_name,
  jobserver_closed,
  jobserver_fifo,
  rfd,
  wfd,
  nonblock,         \* O_NONBLOCK of the description behind rfd
  pool,             \* bytes in the shared pipe
  outstanding,      \* successful Acquire() calls not yet released
  net,              \* bytes read from the pool minus bytes written to it
  hist,             \* what the caller has done with Release() so far
  last              \* the operation that completed last

vars == <<pc, makeflags, token_count, jobserver_name, jobserver_closed,
          jobserver_fifo, rfd, wfd, nonblock, pool, outstanding, net, hist,
          last>>

\* ------------------------------------------------- strings and scanning
isblank(ch) == ch \in {" ", "\t"}

CharAt(s, i) == SubSeq(s, i, i)

\* std::string::find(key) == 0
StartsWith(s, key) ==
  /\ Len(s) >= Len(key)
  /\ SubSeq(s, 1, Len(key)) = key

\* std::string::substr(n)
Substr(s, n) == SubSeq(s, n + 1, Len(s))

RECURSIVE WordEnd(_, _)
\* the inner while loop: first position at or after i that is blank or
\* past the end
WordEnd(s, i) ==
  IF i <= Len(s) /\ ~isblank(CharAt(s, i)) THEN WordEnd(s, i + 1) ELSE i

RECURSIVE TokenizeFrom(_, _, _)
TokenizeFrom(s, i, flags) ==
  IF i > Len(s) THEN flags
  ELSE LET j == WordEnd(s, i)
           flag == SubSeq(s, i, j - 1)
       IN TokenizeFrom(s, j + 1,
                       IF flag # "" THEN Append(flags, flag) ELSE flags)

Tokenize(s) == TokenizeFrom(s, 1, <<>>)

RECURSIVE LastValueFrom(_, _, _, _)
\* for (n = 0; n < flags_.size(); n++) if (find(key) == 0) flag_ = substr
LastValueFrom(flags, key, n, flag) ==
  IF n > Len(flags) THEN flag
  ELSE LastValueFrom(flags, key, n + 1,
                     IF StartsWith(flags[n], key)
                     THEN Substr(flags[n], Len(key)) ELSE flag)

LastValue(flags, key) == LastValueFrom(flags, key, 1, "")

FallBackToFds(flag) == flag = ""

\* the value of the jobserver flag the constructor goes on with
SelectFlag(flags) ==
  LET auth == LastValue(flags, AUTH_KEY)
  IN IF FallBackToFds(auth) THEN LastValue(flags, FDS_KEY) ELSE auth

Digits == "0123456789"
IsDigit(ch) == \E d \in 1..10 : CharAt(Digits, d) = ch
\* the digit's value taken one too high
DigitVal_NoOffset(ch) == CHOOSE d \in 1..10 : CharAt(Digits, d) = ch

DigitVal(ch) == (CHOOSE d \in 1..10 : CharAt(Digits, d) = ch) - 1

RECURSIVE ScanDigits(_, _, _)
\* consumes the digits from position i on; [val, next]
ScanDigits(s, i, acc) ==
  IF i <= Len(s) /\ IsDigit(CharAt(s, i))
  THEN ScanDigits(s, i + 1, acc * 10 + DigitVal(CharAt(s, i)))
  ELSE [val |-> acc, next |-> i]

\* one %d conversion at position i: optional sign, then at least one digit
\* (a word holds no blank, so there is no white space to skip; the values
\* stay far below INT_MAX)
ScanInt(s, i) ==
  LET signed == i <= Len(s) /\ CharAt(s, i) \in {"-", "+"}
      neg == signed /\ CharAt(s, i) = "-"
      j == IF signed THEN i + 1 ELSE i
      d == ScanDigits(s, j, 0)
  IN [ok |-> d.next > j,
      eof |-> j > Len(s),
      val |-> IF neg THEN 0 - d.val ELSE d.val,
      next |-> d.next]

\* sscanf(s, "%d,%d", &r, &w) on the fields r0, w0: the return value and
\* what the two fields hold afterwards
Sscanf2(s, r0, w0) ==
  LET a == ScanInt(s, 1)
  IN IF ~a.ok
     THEN [n |-> IF a.eof THEN -1 ELSE 0, r |-> r0, w |-> w0]
     ELSE IF ~(a.next <= Len(s) /\ CharAt(s, a.next) = ",")
     THEN [n |-> 1, r |-> a.val, w |-> w0]
     ELSE LET b == ScanInt(s, a.next + 1)
          IN IF b.ok THEN [n |-> 2, r |-> a.val, w |-> b.val]
             ELSE [n |-> 1, r |-> a.val, w |-> w0]

\* ------------------------------------------------------------ environment
\* getenv("MAKEFLAGS"): unset, or a string
NULL == [isnull |-> TRUE, str |-> ""]
Env(s) == [isnull |-> FALSE, str |-> s]

\* what open() of the fifo can return for the read and for the write end
OpenRead == {-1, 3}
OpenWrite == {-1, 4}

\* ------------------------------------------------------------ constructor
\* the fields a constructor run ends with, and how it ended
Fields(name, fifo, r, w, closed, tc, fatal, diag) ==
  [name |-> name, fifo |-> fifo, rfd |-> r, wfd |-> w, closed |-> closed,
   tc |-> tc, fatal |-> fatal, diag |-> diag]

\* token_count_ = -1 reached on the early return as well
Disabled_Initialised == Fields("", FALSE, -1, -1, FALSE, -1, FALSE, "none")

Disabled == Fields("", FALSE, -1, -1, FALSE, 0, FALSE, "none")

\* lines 86-93 without the last else: every pair that is not valid is fatal
OpenCheck_NoClosed(r, w) ==
  IF r >= 0 /\ w >= 0 THEN "info" ELSE "fatal"

\* lines 86-93: what the two handles lead to
OpenCheck(r, w) ==
  IF r >= 0 /\ w >= 0 THEN "info"
  ELSE IF r = -1 \/ w = -1 THEN "fatal"
  ELSE "closed"

\* lines 28-78: the flag value found in MAKEFLAGS and what came of it: no
\* value ("none"), a fifo, two descriptors ("fds") or neither ("invalid");
\* r, w: the descriptor fields as sscanf leaves them
ParseFlags(mf) ==
  IF mf.isnull \/ Len(mf.str) = 0
  THEN [kind |-> "none", name |-> "", r |-> -1, w |-> -1]
  ELSE
    LET flag == SelectFlag(Tokenize(mf.str))
    IN IF flag = "" THEN [kind |-> "none", name |-> "", r |-> -1, w |-> -1]
       ELSE IF StartsWith(flag, FIFO_KEY)
       THEN [kind |-> "fifo", name |-> flag, r |-> -1, w |-> -1]
       ELSE LET sc == Sscanf2(flag, -1, -1)
            IN [kind |-> IF sc.n # 2 THEN "invalid" ELSE "fds",
                name |-> flag, r |-> sc.r, w |-> sc.w]

\* the constructor, given p = ParseFlags(MAKEFLAGS) and the results of the
\* two open() calls
Ctor(p, openR, openW) ==
  IF p.kind = "none" THEN Disabled
  ELSE IF p.kind = "invalid"
  THEN Fields(p.name, FALSE, p.r, p.w, FALSE, 0, FALSE, "warning")
  ELSE
    LET fifo == p.kind = "fifo"
        r == IF fifo THEN openR ELSE p.r
        w == IF fifo THEN openW ELSE p.w
        chk == OpenCheck(r, w)
    IN IF chk = "fatal"
       THEN Fields(p.name, fifo, r, w, FALSE, 0, TRUE, "fatal")
       ELSE Fields(p.name, fifo, r, w, chk = "closed", -1, FALSE,
                   IF chk = "info" THEN "info" ELSE "none")

Enabled(c) == rfd[c] >= 0 /\ wfd[c] >= 0

\* init: how the constructor ended ("new" before it ran); acquired, released:
\* Acquire(), Release() or Clear() has been called; paired: no Release() was
\* called without a successful Acquire() to release
FreshHist ==
  [init |-> "new", acquired |-> FALSE, released |-> FALSE, paired |-> TRUE]

Op(c, op, ret, reads, writes, releases, diag) ==
  [client |-> c, op |-> op, ret |-> ret, reads |-> reads,
   writes |-> writes, releases |-> releases, diag |-> diag,
   pre_tc |-> token_count[c], pre_closed |-> jobserver_closed[c],
   pre_out |-> outstanding[c], pre_hist |-> hist[c], out |-> "none"]

NoOp ==
  [client |-> 0, op |-> "none", ret |-> "void", reads |-> 0, writes |-> 0,
   releases |-> 0, diag |-> "none", pre_tc |-> 0, pre_closed |-> FALSE,
   pre_out |-> 0, pre_hist |-> FreshHist, out |-> "none"]

Init ==
  /\ pc = [c \in Clients |-> "new"]
  /\ makeflags = [c \in Clients |-> NULL]
  /\ token_count = [c \in Clients |-> 0]
  /\ jobserver_name = [c \in Clients |-> ""]
  /\ jobserver_closed = [c \in Clients |-> FALSE]
  /\ jobserver_fifo = [c \in Clients |-> FALSE]
  /\ rfd = [c \in Clients |-> -1]
  /\ wfd = [c \in Clients |-> -1]
  /\ nonblock = [c \in Clients |-> TRUE]
  /\ pool \in 0..PoolSize
  /\ outstanding = [c \in Clients |-> 0]
  /\ net = [c \in Clients |-> 0]
  /\ hist = [c \in Clients |-> FreshHist]
  /\ last = NoOp

\* Jobserver::Jobserver() of client c in the environment mf, where
\* p = ParseFlags(mf), with the results openR, openW of the two open() calls
\* and the blocking mode nb of an inherited read descriptor
Construct(c, mf, p, openR, openW, nb) ==
  /\ pc[c] = "new"
  /\ LET f == Ctor(p, openR, openW)
     IN /\ pc' = [pc EXCEPT ![c] = IF f.fatal THEN "aborted" ELSE "idle"]
        /\ makeflags' = [makeflags EXCEPT ![c] = mf]
        /\ token_count' = [token_count EXCEPT ![c] = f.tc]
        /\ jobserver_name' = [jobserver_name EXCEPT ![c] = f.name]
        /\ jobserver_closed' = [jobserver_closed EXCEPT ![c] = f.closed]
        /\ jobserver_fifo' = [jobserver_fifo EXCEPT ![c] = f.fifo]
        /\ rfd' = [rfd EXCEPT ![c] = f.rfd]
        /\ wfd' = [wfd EXCEPT ![c] = f.wfd]
        /\ nonblock' = [nonblock EXCEPT ![c] =
                          IF f.fifo \/ f.rfd < 0 THEN TRUE ELSE nb]
        /\ last' = Op(c, "Construct", IF f.fatal THEN "fatal" ELSE "void",
                      0, 0, 0, f.diag)
        /\ hist' = [hist EXCEPT ![c].init =
                      IF f.fatal THEN "fatal"
                      ELSE IF f.tc = -1 THEN "initialised" ELSE "disabled"]
  /\ UNCHANGED <<pool, outstanding, net>>

\* ---------------------------------------------------------------- Acquire
\* line 118 with == for <=: the initialised state -1 is not recognised
ImplicitToken_ZeroOnly(tc, closed) == tc = 0 \/ closed

\* line 118 without the test of jobserver_closed_
ImplicitToken_IgnoresClosed(tc, closed) == tc <= 0

\* line 118 without the implicit token: only a closed pipe skips the read
ImplicitToken_ClosedOnly(tc, closed) == closed

\* line 118: the implicit first token, and the fallback on a closed pipe
ImplicitToken(tc, closed) == tc <= 0 \/ closed

\* what read(rfd_, &token, 1) can do: deliver a byte, fail with EAGAIN,
\* return 0, fail with another error, or not return yet
ReadOutcomes(c) ==
  IF rfd[c] < 0 THEN {"error"}
  ELSE {"error"}
       \cup (IF pool > 0 THEN {"byte"}
             ELSE IF nonblock[c] THEN {"again"} ELSE {"block"})
       \cup (IF pool = 0 /\ ~jobserver_fifo[c] THEN {"eof"} ELSE {})

\* what a read that did not return at once can do later
ResumeOutcomes(c) ==
  {"error"} \cup (IF pool > 0 THEN {"byte"} ELSE {"eof"})

\* line 125 without the test of errno
HardError_NoErrno(out) == out \in {"error", "again"}

\* line 125: ret < 0 && errno != EAGAIN && errno != EWOULDBLOCK
HardError(out) == out = "error"

\* lines 127-130 with Fatal() for both kinds of pipe
ReadFatal_Always(hard, fifo) == hard

\* lines 127-130: a read error is fatal on the fifo only
ReadFatal(hard, fifo) == hard /\ fifo

\* lines 125-136, once read() has returned; last.out keeps what read() did
ReadReturn(c, out) ==
  LET ret == IF out = "byte" THEN 1 ELSE IF out = "eof" THEN 0 ELSE -1
      hard == HardError(out)
      fatal == ReadFatal(hard, jobserver_fifo[c])
      got == ret > 0 /\ ~fatal
  IN /\ jobserver_closed' =
          [jobserver_closed EXCEPT ![c] = IF hard THEN TRUE ELSE @]
     /\ pc' = [pc EXCEPT ![c] = IF fatal THEN "aborted" ELSE "idle"]
     /\ token_count' = [token_count EXCEPT ![c] = IF got THEN @ + 1 ELSE @]
     /\ pool' = IF out = "byte" THEN pool - 1 ELSE pool
     /\ net' = [net EXCEPT ![c] = IF out = "byte" THEN @ + 1 ELSE @]
     /\ outstanding' = [outstanding EXCEPT ![c] = IF got THEN @ + 1 ELSE @]
     /\ last' = [Op(c, "Acquire",
                    IF fatal THEN "fatal" ELSE IF got THEN "true" ELSE "false",
                    1, 0, 0,
                    IF fatal THEN "fatal" ELSE IF hard THEN "warning"
                    ELSE "none") EXCEPT !.out = out]

Acquire(c) ==
  /\ pc[c] = "idle"
  /\ outstanding[c] < MaxHeld
  /\ hist' = [hist EXCEPT ![c].acquired = TRUE]
  /\ IF ImplicitToken(token_count[c], jobserver_closed[c])
     THEN /\ token_count' = [token_count EXCEPT ![c] = 1]
          /\ outstanding' = [outstanding EXCEPT ![c] = @ + 1]
          /\ last' = Op(c, "Acquire", "true", 0, 0, 0, "none")
          /\ UNCHANGED <<pc, jobserver_closed, pool, net>>
     ELSE \E out \in ReadOutcomes(c) :
            IF out = "block"
            THEN /\ pc' = [pc EXCEPT ![c] = "reading"]
                 /\ UNCHANGED <<token_count, jobserver_closed, pool, net,
                                outstanding, last>>
            ELSE ReadReturn(c, out)
  /\ UNCHANGED <<makeflags, jobserver_name, jobserver_fifo, rfd, wfd,
                 nonblock>>

\* the read of an Acquire() that waited returns
AcquireResume(c) ==
  /\ pc[c] = "reading"
  /\ \E out \in ResumeOutcomes(c) : ReadReturn(c, out)
  /\ UNCHANGED <<makeflags, jobserver_name, jobserver_fifo, rfd, wfd,
                 nonblock, hist>>

\* ---------------------------------------------------------------- Release
\* lines 140-143 with the count reset instead of decremented
ReleaseCount_Reset(tc) == 0

\* lines 140-143
ReleaseCount(tc) ==
  LET t == IF tc < 0 THEN 0 ELSE tc
  IN IF t > 0 THEN t - 1 ELSE t

\* line 147 without the test of token_count_
ReleaseNoIO_IgnoresCount(tc, closed) == closed

\* line 147 without the test of jobserver_closed_
ReleaseNoIO_IgnoresClosed(tc, closed) == tc = 0

\* line 147
ReleaseNoIO(tc, closed) == tc = 0 \/ closed

\* one Release() on the fields tc, closed; wok: the write transfers its byte
ReleaseEffect(tc, closed, wok) ==
  LET t == ReleaseCount(tc)
  IN IF ReleaseNoIO(t, closed)
     THEN [tc |-> t, writes |-> 0, wrote |-> FALSE, fatal |-> FALSE]
     ELSE [tc |-> t, writes |-> 1, wrote |-> wok, fatal |-> ~wok]

\* write(wfd_, &token, 1) transfers one byte or does not
WriteOutcomes(c) == IF wfd[c] < 0 THEN {FALSE} ELSE {TRUE, FALSE}

Max(a, b) == IF a > b THEN a ELSE b

Release(c) ==
  /\ pc[c] = "idle"
  /\ \E wok \in WriteOutcomes(c) :
       LET r == ReleaseEffect(token_count[c], jobserver_closed[c], wok)
       IN /\ token_count' = [token_count EXCEPT ![c] = r.tc]
          /\ pool' = IF r.wrote THEN pool + 1 ELSE pool
          /\ net' = [net EXCEPT ![c] = IF r.wrote THEN @ - 1 ELSE @]
          /\ pc' = [pc EXCEPT ![c] = IF r.fatal THEN "aborted" ELSE "idle"]
          /\ last' = Op(c, "Release", IF r.fatal THEN "fatal" ELSE "void",
                        0, r.writes, 1,
                        IF r.fatal THEN "fatal" ELSE "none")
  /\ outstanding' = [outstanding EXCEPT ![c] = Max(@ - 1, 0)]
  /\ hist' = [hist EXCEPT ![c].released = TRUE,
                          ![c].paired = @ /\ outstanding[c] > 0]
  /\ UNCHANGED <<makeflags, jobserver_name, jobserver_closed, jobserver_fifo,
                 rfd, wfd, nonblock>>

\* ------------------------------------------------------------------ Clear
\* line 158 as while (token_count_ > 0)
ClearDone_NotPositive(tc) == tc <= 0

\* line 158: the loop ends when token_count_ is 0
ClearDone(tc) == tc = 0

RECURSIVE ClearLoop(_, _, _, _)
\* while (token_count_) Release(); the first okWrites writes transfer their
\* byte, the next one does not
ClearLoop(tc, closed, okWrites, acc) ==
  IF ClearDone(tc) \/ acc.fatal THEN [tc |-> tc] @@ acc
  ELSE LET r == ReleaseEffect(tc, closed, okWrites > 0)
       IN ClearLoop(r.tc, closed, okWrites - r.writes,
                    [releases |-> acc.releases + 1,
                     writes |-> acc.writes + r.writes,
                     wrote |-> acc.wrote + (IF r.wrote THEN 1 ELSE 0),
                     fatal |-> r.fatal])

ClearRun(c, okWrites) ==
  ClearLoop(token_count[c], jobserver_closed[c], okWrites,
            [releases |-> 0, writes |-> 0, wrote |-> 0, fatal |-> FALSE])

WriteBudgets(c) == IF wfd[c] < 0 THEN {0} ELSE 0..MaxHeld

\* the part Clear() and the destructor share
ClearEffect(c, r, op) ==
  /\ token_count' = [token_count EXCEPT ![c] = r.tc]
  /\ pool' = pool + r.wrote
  /\ net' = [net EXCEPT ![c] = @ - r.wrote]
  /\ outstanding' = [outstanding EXCEPT ![c] = Max(@ - r.releases, 0)]
  /\ hist' = [hist EXCEPT ![c].released = TRUE]
  /\ last' = Op(c, op, IF r.fatal THEN "fatal" ELSE "void",
                0, r.writes, r.releases,
                IF r.fatal THEN "fatal" ELSE "none")

Clear(c) ==
  /\ pc[c] = "idle"
  /\ \E k \in WriteBudgets(c) :
       LET r == ClearRun(c, k)
       IN /\ ClearEffect(c, r, "Clear")
          /\ pc' = [pc EXCEPT ![c] = IF r.fatal THEN "aborted" ELSE "idle"]
  /\ UNCHANGED <<makeflags, jobserver_name, jobserver_closed, jobserver_fifo,
                 rfd, wfd, nonblock>>

\* Jobserver::~Jobserver()
Destroy(c) ==
  /\ pc[c] = "idle"
  /\ \E k \in WriteBudgets(c) :
       LET r == ClearRun(c, k)
       IN /\ ClearEffect(c, r, "Destroy")
          /\ pc' = [pc EXCEPT ![c] =
                      IF r.fatal THEN "aborted" ELSE "destroyed"]
          /\ rfd' = [rfd EXCEPT ![c] = IF r.fatal THEN @ ELSE -1]
          /\ wfd' = [wfd EXCEPT ![c] = IF r.fatal THEN @ ELSE -1]
  /\ UNCHANGED <<makeflags, jobserver_name, jobserver_closed, jobserver_fifo,
                 nonblock>>

\* ---------------------------------------------------------- specification
\* the environments the clients are started in
RunFlags ==
  {NULL, Env(""), Env("-j4 -k"),
   Env("--jobserver-auth=fifo:p"),
   Env("-j --jobserver-auth=3,4"),
   Env("--jobserver-fds=3,4"),
   Env("--jobserver-auth=-2,4"),
   Env("--jobserver-auth=3,-1"),
   Env("--jobserver-auth=-2,-3"),
   Env("--jobserver-auth=-1,-3"),
   Env("--jobserver-auth=-1,-1"),
   Env("--jobserver-auth=7"),
   Env("--jobserver-auth=x"),
   Env("--jobserver-auth=5,x")}

Start(c) ==
  \E mf \in RunFlags :
    LET p == ParseFlags(mf)
    IN \E openR \in OpenRead, openW \in OpenWrite, nb \in BOOLEAN :
         Construct(c, mf, p, openR, openW, nb)

\* one client process, in every environment
Self == 1

Next ==
  \/ Start(Self)
  \/ Acquire(Self)
  \/ AcquireResume(Self)
  \/ Release(Self)
  \/ Clear(Self)
  \/ Destroy(Self)

Spec == Init /\ [][Next]_vars

\* the clients of one build tree on one pool: each is handed a jobserver,
\* and its scheduler calls Release() once per finished command
SharedFlags ==
  {Env("--jobserver-auth=fifo:p"), Env("-j --jobserver-auth=3,4")}

StartShared(c) ==
  \E mf \in SharedFlags :
    LET p == ParseFlags(mf)
    IN \E openR \in OpenRead, openW \in OpenWrite, nb \in BOOLEAN :
         Construct(c, mf, p, openR, openW, nb)

Finish(c) == outstanding[c] > 0 /\ Release(c)

InitShared == Init /\ pool = PoolSize

NextShared ==
  \E c \in Clients :
    \/ StartShared(c)
    \/ Acquire(c)
    \/ AcquireResume(c)
    \/ Finish(c)
    \/ Clear(c)
    \/ Destroy(c)

SpecShared == InitShared /\ [][NextShared]_vars

\* the constructor alone, over the flag strings made of up to MaxWords words
MaxWords == 3

Words ==
  {"--jobserver-auth=3,4", "--jobserver-auth=", "--jobserver-auth=fifo:q",
   "--jobserver-fds=5,6", "--jobserver-fds=", "--jobserver-fds=fifo:r",
   "-j4"}

RECURSIVE Strings(_)
\* the strings of n words, each followed by a blank
Strings(n) ==
  IF n = 0 THEN {""}
  ELSE {w \o " " \o s : w \in Words, s \in Strings(n - 1)}

\* the strings of the tests, and values that are no fifo and no pair
TestInputs ==
  {Env("--jobserver-auth=fifo:foo123"), Env("--jobserver-auth=18,66"),
   Env("--jobserver-auth=7"), Env("--jobserver-auth=5,x"),
   Env("--jobserver-auth=x"), Env("--jobserver-auth=-"),
   Env("--jobserver-auth=-2,-3"), Env("--jobserver-auth=-2,4"),
   Env("--jobserver-auth=3,-1"), Env("--jobserver-auth=3,4x"),
   Env("--jobserver-auth=fifo:")}

ParseInputs ==
  {NULL} \cup {Env(s) : s \in UNION {Strings(n) : n \in 0..MaxWords}}
         \cup {Env(" \t" \o w \o "\t" \o v) : w, v \in Words}
         \cup TestInputs

StartParse(c) ==
  \E mf \in ParseInputs :
    LET p == ParseFlags(mf)
    IN \E openR \in OpenRead, openW \in OpenWrite, nb \in BOOLEAN :
         Construct(c, mf, p, openR, openW, nb)

NextParse == StartParse(Self)

SpecParse == Init /\ [][NextParse]_vars

\* ------------------------------------------------------------------ claims
RECURSIVE SumTo(_, _)
SumTo(f, n) == IF n = 0 THEN 0 ELSE f[n] + SumTo(f, n - 1)

Abs(n) == IF n < 0 THEN 0 - n ELSE n

\* the operation that completed last is op, called by an initialised client
LastBy(op, init) ==
  /\ last.op = op
  /\ last.pre_hist.init = init

\* C1: the first Acquire() of a client whose constructor initialised it
\* (held_count = -1 set) returns true, leaves held_count = 1 and reads nothing,
\* whatever the pool holds.
C1_FirstAcquireSucceeds ==
  (LastBy("Acquire", "initialised") /\ ~last.pre_hist.acquired)
    => /\ last.ret = "true"
       /\ token_count[last.client] = 1
       /\ last.reads = 0
       /\ last.writes = 0

\* a first Acquire() that succeeded on an empty pool
C1_Witness ==
  /\ LastBy("Acquire", "initialised")
  /\ ~last.pre_hist.acquired
  /\ last.ret = "true"
  /\ pool = 0
  /\ ~jobserver_closed[last.client]

\* C2: as long as the caller pairs every Release() with a successful
\* Acquire(), held_count is the number of successful Acquire() calls not yet
\* released when it is positive, and none is un-released when it is not.
C2_HeldCountIsOutstanding ==
  \A c \in Clients :
    (hist[c].paired /\ pc[c] # "new")
      => IF token_count[c] > 0 THEN token_count[c] = outstanding[c]
         ELSE outstanding[c] = 0

\* C3: the successful Acquire() calls not yet released, summed over the
\* clients of one pool of PoolSize tokens, never exceed PoolSize + NumClients.
C3_AggregateCap ==
  SumTo(outstanding, NumClients) <= PoolSize + NumClients

\* C4: a client that was destroyed without a fatal abort holds no token and
\* has written to the pool as many bytes as it read from it.
C4_NoTokenLeaked ==
  \A c \in Clients :
    pc[c] = "destroyed" => token_count[c] = 0 /\ net[c] = 0

\* C5 as stated, for the first Clear(): after N >= 0 successful Acquire()
\* calls and no Release() on an initialised client, Clear() performs exactly
\* N Release() steps and leaves held_count = 0.
C5_ClearReleasesN ==
  (LastBy("Clear", "initialised") /\ ~last.pre_hist.released
     /\ last.ret = "void")
    => /\ last.releases = last.pre_out
       /\ token_count[last.client] = 0

\* C5 as amended: Clear() performs exactly |held_count| Release() steps and
\* leaves held_count = 0; after N >= 1 successful Acquire() calls and no
\* Release() on an initialised client whose channel is not closed that is N
\* steps, N - 1 of them writing a byte; at held_count = -1 it is one step
\* without I/O; and a Clear() right after a Clear() performs no Release()
\* step, no I/O, and changes nothing.
C5_ClearReleasesHeldCount ==
  /\ [](last.op = "Clear" /\ last.ret = "void"
          => /\ last.releases = Abs(last.pre_tc)
             /\ token_count[last.client] = 0
             /\ last.reads = 0
             /\ last.pre_tc = -1 => last.writes = 0
             /\ (/\ last.pre_hist.init = "initialised"
                 /\ ~last.pre_hist.released
                 /\ ~last.pre_closed
                 /\ last.pre_out >= 1)
                  => /\ last.releases = last.pre_out
                     /\ last.writes = last.pre_out - 1)
  /\ [][\A c \in Clients :
          (last.op = "Clear" /\ last.client = c /\ last.ret = "void"
             /\ Clear(c))
            => /\ last'.releases = 0
               /\ last'.writes = 0
               /\ last'.reads = 0
               /\ UNCHANGED <<pc, token_count, jobserver_closed, rfd, wfd,
                              pool, net>>]_vars

\* Clear() after two successful Acquire() calls on an open channel
C5_Witness ==
  /\ LastBy("Clear", "initialised")
  /\ ~last.pre_hist.released
  /\ ~last.pre_closed
  /\ last.pre_out = 2
  /\ last.releases = 2
  /\ last.writes = 1

\* C6: once jobserver_closed_ is set on a client of a non-named pipe it stays
\* set, and every later Acquire() returns true without a read or a write.
C6_ClosedStaysClosed ==
  /\ [][\A c \in Clients :
          jobserver_closed[c] /\ ~jobserver_fifo[c]
            => jobserver_closed'[c]]_vars
  /\ [](last.op = "Acquire" /\ last.pre_closed
          /\ ~jobserver_fifo[last.client]
          => /\ last.ret = "true"
             /\ last.reads = 0
             /\ last.writes = 0)

\* an Acquire() that succeeded on a pipe pair with two valid descriptors that
\* an earlier read error had marked closed
C6_Witness ==
  /\ last.op = "Acquire"
  /\ last.pre_closed
  /\ last.ret = "true"
  /\ ~jobserver_fifo[last.client]
  /\ rfd[last.client] >= 0
  /\ wfd[last.client] >= 0

\* C7: a client constructed without a jobserver flag (held_count = 0, both
\* handles -1) never issues a read or a write, whatever is called on it.
C7_DisabledNoIO ==
  (/\ last.op \in {"Acquire", "Release", "Clear", "Destroy"}
   /\ last.pre_hist.init = "disabled"
   /\ jobserver_name[last.client] = "")
    => last.reads = 0 /\ last.writes = 0

\* C8: no Acquire() ever waits in its read for a token byte to arrive.
C8_AcquireNeverBlocks ==
  \A c \in Clients : pc[c] # "reading"

\* C9: Release() at held_count = -1 reads and writes nothing, sets held_count
\* to 0 and leaves jobserver_closed_ and both handles as they were; the
\* Acquire() after it succeeds without a read.
C9_ReleaseBeforeFirstToken ==
  /\ [](last.op = "Release" /\ last.pre_tc = -1
          => /\ last.reads = 0
             /\ last.writes = 0
             /\ last.ret = "void"
             /\ token_count[last.client] = 0
             /\ jobserver_closed[last.client] = last.pre_closed)
  /\ [][\A c \in Clients :
          Release(c) /\ token_count[c] = -1
            => UNCHANGED <<jobserver_closed, rfd, wfd, pool, net>>]_vars
  /\ [][\A c \in Clients :
          (last.op = "Release" /\ last.client = c /\ last.pre_tc = -1
             /\ Acquire(c))
            => /\ last'.ret = "true"
               /\ last'.reads = 0
               /\ token_count'[c] = 1]_vars

\* an Acquire() that succeeded right after a Release() at held_count = -1,
\* on an open channel
C9_Witness ==
  /\ last.op = "Acquire"
  /\ last.pre_tc = 0
  /\ last.pre_hist.init = "initialised"
  /\ last.pre_hist.released
  /\ ~last.pre_hist.acquired
  /\ ~last.pre_closed
  /\ last.ret = "true"

HasWord(flags, key) == \E n \in 1..Len(flags) : StartsWith(flags[n], key)

\* C10: when MAKEFLAGS has a --jobserver-auth= word and a --jobserver-fds=
\* word, the value the constructor goes on with is that of the last
\* --jobserver-auth= word.
C10_AuthWins ==
  \A c \in Clients :
    (/\ pc[c] # "new"
     /\ ~makeflags[c].isnull
     /\ HasWord(Tokenize(makeflags[c].str), AUTH_KEY)
     /\ HasWord(Tokenize(makeflags[c].str), FDS_KEY))
      => jobserver_name[c] = LastValue(Tokenize(makeflags[c].str), AUTH_KEY)

\* ------------------------------------------------------- parse_makeflags
\* std::tuple<std::string, int, int> parse_makeflags(const char*) is declared
\* in jobserver.h and called by the tests; it has no definition in the
\* sources, so this is the parser of the specification (section 4.1) on the
\* scanning the constructor does
Tuple(fifo, r, w) == [fifo |-> fifo, rfd |-> r, wfd |-> w]

\* the last --jobserver-auth= word if there is one, else the last
\* --jobserver-fds= word
SpecSelect(flags) ==
  IF HasWord(flags, AUTH_KEY) THEN LastValue(flags, AUTH_KEY)
  ELSE LastValue(flags, FDS_KEY)

parse_makeflags(mf) ==
  IF mf.isnull \/ mf.str = "" THEN Tuple("", -1, -1)
  ELSE
    LET v == SpecSelect(Tokenize(mf.str))
    IN IF v = "" THEN Tuple("", -1, -1)
       ELSE IF StartsWith(v, FIFO_KEY)
       THEN Tuple(Substr(v, Len(FIFO_KEY)), -1, -1)
       ELSE LET sc == Sscanf2(v, -1, -1)
            IN IF sc.n = 2 THEN Tuple("", sc.r, sc.w)
               ELSE Tuple("", -1, -1)

\* the operation that completed last is the constructor of client c
Constructed(c) == last.op = "Construct" /\ last.client = c

\* C11: for MAKEFLAGS unset and for MAKEFLAGS empty, parsing yields the empty
\* path and the descriptors -1, -1, and the client the constructor leaves has
\* held_count = 0, Enabled() false and jobserver_closed_ false.
C11_NullOrEmptyDisabled ==
  \A c \in Clients :
    (Constructed(c) /\ (makeflags[c].isnull \/ makeflags[c].str = ""))
      => /\ parse_makeflags(makeflags[c]) = Tuple("", -1, -1)
         /\ jobserver_name[c] = ""
         /\ rfd[c] = -1
         /\ wfd[c] = -1
         /\ token_count[c] = 0
         /\ ~Enabled(c)
         /\ ~jobserver_closed[c]
         /\ pc[c] = "idle"
         /\ last.diag = "none"

\* a client constructed with MAKEFLAGS set and empty
C11_Witness ==
  /\ Constructed(Self)
  /\ ~makeflags[Self].isnull
  /\ makeflags[Self].str = ""
  /\ token_count[Self] = 0

\* the descriptor numbers the check of C12 writes out
FdRange == {-3, -2, -1, 3, 4, 5, 6, 18, 66}

Found(c) == ParseFlags(makeflags[c]).kind

\* C13: the constructor, given two descriptors of which exactly one is >= 0,
\* does not abort, sets jobserver_closed_ and leaves token_count_ = -1.
C13_HalfOpenDegrades ==
  \A c \in Clients :
    (/\ Constructed(c)
     /\ Found(c) = "fds"
     /\ (rfd[c] >= 0) # (wfd[c] >= 0))
      => /\ pc[c] = "idle"
         /\ jobserver_closed[c]
         /\ token_count[c] = -1

\* C14 as stated: the constructor, given a fifo or two descriptors and left
\* with two negative handles, aborts and does not set token_count_ = -1.
C14_NeitherValidFatal ==
  \A c \in Clients :
    (/\ Constructed(c)
     /\ Found(c) \in {"fifo", "fds"}
     /\ rfd[c] < 0
     /\ wfd[c] < 0)
      => /\ pc[c] = "aborted"
         /\ token_count[c] # -1

\* C14: the constructor, given a fifo or two descriptors and left with two
\* negative handles, aborts with token_count_ = 0 when one of the handles is
\* -1 (as after a failed open); when neither is -1 it does not abort, sets
\* jobserver_closed_ and token_count_ = -1. A client aborted in the
\* constructor has token_count_ = 0 and has run no operation.
C14_NeitherValid ==
  \A c \in Clients :
    /\ (/\ Constructed(c)
        /\ Found(c) \in {"fifo", "fds"}
        /\ rfd[c] < 0
        /\ wfd[c] < 0)
         => IF rfd[c] = -1 \/ wfd[c] = -1
            THEN /\ pc[c] = "aborted"
                 /\ last.ret = "fatal"
                 /\ last.diag = "fatal"
                 /\ hist[c].init = "fatal"
                 /\ token_count[c] = 0
                 /\ ~jobserver_closed[c]
            ELSE /\ pc[c] = "idle"
                 /\ hist[c].init = "initialised"
                 /\ jobserver_closed[c]
                 /\ token_count[c] = -1
    /\ hist[c].init = "fatal"
         => /\ pc[c] = "aborted"
            /\ token_count[c] = 0
            /\ ~hist[c].acquired
            /\ ~hist[c].released

\* the constructor has run on the descriptors -2,-3
C14_Witness ==
  /\ Constructed(Self)
  /\ makeflags[Self].str = "--jobserver-auth=-2,-3"
  /\ rfd[Self] = -2
  /\ wfd[Self] = -3
  /\ jobserver_closed[Self]

\* C15: the constructor, given a value that is no fifo and no two integers,
\* warns and leaves token_count_ = 0, rfd_ = wfd_ = -1 and jobserver_closed_
\* false.
C15_MalformedDisabled ==
  \A c \in Clients :
    (Constructed(c) /\ Found(c) = "invalid")
      => /\ last.diag = "warning"
         /\ pc[c] = "idle"
         /\ token_count[c] = 0
         /\ rfd[c] = -1
         /\ wfd[c] = -1
         /\ ~jobserver_closed[c]

\* the operation that completed last is op, called by client c
LastOf(c, op) == last.op = op /\ last.client = c

\* every operation of client c: what the process of c can still run
AnyOp(c) ==
  Acquire(c) \/ AcquireResume(c) \/ Release(c) \/ Clear(c) \/ Destroy(c)

C17_ReleaseWritesIff ==
  /\ [](\A c \in Clients :
          LastOf(c, "Release")
            => /\ last.writes = 1 <=> (last.pre_tc >= 2 /\ ~last.pre_closed)
               /\ last.writes \in {0, 1}
               /\ last.reads = 0
               /\ last.releases = 1
               /\ last.writes = 1 => token_count[c] = last.pre_tc - 1
               /\ last.ret = "fatal" => last.writes = 1 /\ pc[c] = "aborted"
               /\ last.ret = "void" => pc[c] = "idle"
               /\ token_count[c] >= 0
               /\ token_count[c] =
                    (IF last.pre_tc >= 1 THEN last.pre_tc - 1 ELSE 0)
               /\ jobserver_closed[c] = last.pre_closed)
  /\ [][\A c \in Clients :
          Release(c)
            => /\ pool' = pool + (IF last'.writes = 1 /\ last'.ret = "void"
                                  THEN 1 ELSE 0)
               /\ net'[c] = net[c] + (pool - pool')
               /\ (last'.writes = 1 /\ pool' = pool) => pc'[c] = "aborted"
               /\ UNCHANGED <<rfd, wfd, jobserver_closed>>]_vars

\* a Release() at token_count_ = 2 that wrote its byte
C17_Witness ==
  /\ LastOf(Self, "Release")
  /\ last.pre_tc = 2
  /\ ~last.pre_closed
  /\ last.writes = 1
  /\ last.ret = "void"
  /\ token_count[Self] = 1

\* C18 as stated: Clear() ends with token_count_ = 0 after as many Release()
\* steps as there are successful Acquire() calls not yet released, none at
\* token_count_ = 0 and none at token_count_ = -1.
C18_ClearRunsOutstanding ==
  \A c \in Clients :
    (LastOf(c, "Clear") /\ last.ret = "void")
      => /\ token_count[c] = 0
         /\ last.releases = last.pre_out
         /\ last.pre_tc \in {0, -1} => last.releases = 0

\* C18: Clear() can run in every state of a live client and, when its writes
\* succeed, ends with token_count_ = 0 after |token_count_| Release() steps:
\* none at 0, one without I/O at -1, and, when jobserver_closed_ is false and
\* n >= 1 successful Acquire() calls are not yet released, n steps of which
\* n - 1 write a byte.
C18_ClearRuns ==
  \A c \in Clients :
    /\ pc[c] = "idle" => ENABLED Clear(c)
    /\ (LastOf(c, "Clear") /\ last.ret = "void")
         => /\ token_count[c] = 0
            /\ last.releases = Abs(last.pre_tc)
            /\ last.pre_tc = 0 => last.releases = 0 /\ last.writes = 0
            /\ last.pre_tc = -1
                 => /\ last.releases = 1
                    /\ last.writes = 0
                    /\ last.pre_out = 0
            /\ (last.pre_tc >= 1 /\ ~last.pre_closed)
                 => /\ last.releases = last.pre_out
                    /\ last.writes = last.pre_out - 1
                    /\ outstanding[c] = 0
    /\ (LastOf(c, "Clear") /\ last.ret = "fatal")
         => last.writes >= 1 /\ pc[c] = "aborted"

\* Clear() on a client that has run nothing since its constructor
C18_Witness ==
  /\ LastOf(Self, "Clear")
  /\ last.pre_tc = -1
  /\ last.pre_out = 0
  /\ last.releases = 1
  /\ last.writes = 0
  /\ token_count[Self] = 0

\* C19: an Acquire() whose read found no byte (EAGAIN, or a read of zero
\* bytes) returns false without a diagnostic and leaves token_count_,
\* jobserver_closed_, rfd_, wfd_ and the pool as they were.
C19_FailedAcquireNoEffect ==
  /\ [](\A c \in Clients :
          (/\ LastOf(c, "Acquire")
           /\ last.out \in {"again", "eof"}
           /\ pc[c] # "reading")
            => /\ last.ret = "false"
               /\ last.diag = "none"
               /\ pc[c] = "idle"
               /\ token_count[c] = last.pre_tc
               /\ jobserver_closed[c] = last.pre_closed
               /\ outstanding[c] = last.pre_out
               /\ last.writes = 0)
  /\ [][\A c \in Clients :
          ((Acquire(c) \/ AcquireResume(c))
             /\ last'.out \in {"again", "eof"})
            => UNCHANGED <<token_count, jobserver_closed, rfd, wfd, pool,
                           net, outstanding, jobserver_fifo, jobserver_name,
                           nonblock>>]_vars

\* an Acquire() on an empty pool that read() answered with EAGAIN
C19_Witness ==
  /\ LastOf(Self, "Acquire")
  /\ last.out = "again"
  /\ last.ret = "false"
  /\ last.pre_tc >= 1
  /\ pool = 0

\* jobserver_closed_ was set by the constructor of client c (line 93)
CtorClosed(c) ==
  LET p == ParseFlags(makeflags[c])
  IN p.kind = "fds" /\ OpenCheck(p.r, p.w) = "closed"

\* a read of client c failed with an error other than EAGAIN (line 126 set
\* jobserver_closed_), or a write of c did not transfer its byte (line 153)
Failed(c) ==
  \/ jobserver_closed[c] /\ ~CtorClosed(c)
  \/ pc[c] = "aborted" /\ hist[c].init # "fatal"

\* the tokens client c holds beside its implicit one
Held(c) == Max(token_count[c], 1) - 1

\* C20: while no read of any client has failed with an error other than
\* EAGAIN and no write has failed, the bytes in the pool plus the tokens the
\* clients hold beside their implicit one are the PoolSize bytes the pool
\* started with, and each client has read max(token_count_, 1) - 1 bytes more
\* than it has written.
C20_TokenConservation ==
  (\A c \in Clients : ~Failed(c))
    => /\ pool + SumTo([c \in Clients |-> Held(c)], NumClients) = PoolSize
       /\ \A c \in Clients : net[c] = Held(c)

\* two clients hold a token of the pool each, beside their implicit one
C20_Witness ==
  /\ \A c \in Clients : ~Failed(c)
  /\ \E c, d \in Clients :
       /\ c # d
       /\ token_count[c] = 2
       /\ token_count[d] = 2
       /\ net[c] = 1
       /\ net[d] = 1
  /\ pool = PoolSize - 2

====
